---- MODULE Spec2Model ----
(***************************************************************************)
(* A model of the live-transcription pipeline of this repository.          *)
(*                                                                         *)
(*   src/whispers2t.py                  TranscriptionHistory and           *)
(*                                      OptimizedAudioTranscriber          *)
(*   src/src/audio_recorder.py          AudioRecorder                      *)
(*   src/src/transcription_service.py   TranscriptionService               *)
(*                                                                         *)
(* The variable prog says what a behaviour runs: whispers2t.py, or one of  *)
(* its parts driven directly (TranscriptionHistory, transcribe_buffer on   *)
(* one engine answer), or the AudioRecorder or the TranscriptionService    *)
(* under any sequence of calls of its methods.                             *)
(* A text is a sequence of one-character strings.  Python's None is the    *)
(* number 0 for a thread handle, the record NoFile for a file, and the     *)
(* empty text for a prompt (the code passes None for every falsy prompt).  *)
(***************************************************************************)
EXTENDS Integers, Sequences, FiniteSets, TLC

VARIABLES
    prog,       \* which program runs: "whispers2t", "history", "noise",
                \* "recorder", "service"
    caller,     \* where the calling (main) thread is: "idle" or inside a join
    oat,        \* the fields of the OptimizedAudioTranscriber object
    loops,      \* the _transcription_loop threads ever started, by handle
    history,    \* TranscriptionHistory.history
    ret,        \* what the last API call returned: "None", "True", "False", "raised"
    pushed,     \* observer: the frames appended since the buffer was last reset
    saved,      \* observer: the frames written to some chunk file so far
    added,      \* observer: the arguments of the TranscriptionHistory.add calls
    noise,      \* the engine result under test and what transcribe_buffer returned
    rec,        \* the fields of the AudioRecorder object
    recs,       \* the _record_audio threads ever started, by handle
    svc,        \* the fields of the TranscriptionService object
    svcs,       \* the _process_chunks threads ever started, by handle
    fs,         \* the chunk files on disk: path -> frames (<<>>: no such file)
    now         \* the wall clock in whole seconds, which names the chunk files

uiVars == <<rec, recs, svc, svcs, fs, now>>

oatVars == <<oat, loops, history, pushed, saved, added, noise>>

vars == <<prog, caller, ret, oatVars, uiVars>>

-----------------------------------------------------------------------------
(* Program constants of src/whispers2t.py *)

CHUNK == 4096
CHANNELS == 1
TARGET_SAMPLE_RATE == 16000
MAX_BUFFER_SECONDS == 30
max_history == 5
MinBufferLength == 5
ShortTextLen == 3

(* Bounds of the model *)

MaxFrames == 7      \* frames the capture callback delivers in one behaviour
MaxCalls == 2       \* engine calls in one behaviour
MaxStarts == 2      \* successful start_recording calls, hence loop threads
MaxAdds == 7        \* TranscriptionHistory.add calls in one behaviour
MaxTextLen == 3     \* length of an engine result in the noise-rule check
MaxReads == 3       \* frames the recording threads read in one behaviour
MaxRecStarts == 2   \* successful AudioRecorder.start_recording calls
MaxSvcStarts == 2   \* successful TranscriptionService.start_processing calls
MaxSessions == 1   \* recording sessions of TranscriptionUI in one behaviour
MaxClock == 1       \* seconds the wall clock advances in one behaviour

(* Sample rates a device descriptor may report.  The code accepts whatever *)
(* integer the descriptor carries; the low rate makes the buffer limit     *)
(* (6 frames) reachable within MaxFrames.                                  *)
DeviceRates == {820, 16000}

(* input_device_index: 0 stands for None (the default device), 1 and 2 for *)
(* devices reporting the two rates, 3 for an index that names no device.   *)
DeviceIndexes == {0, 1, 2, 3}

Chars == {"o", "k", ".", ",", " "}
Punctuation == {".", "!", "?", ",", ";"}
Whitespace == {" "}

Hello == <<"h", "e", "l", "l", "o">>
World == <<"w", "o", "r", "l", "d">>
Ok == <<"o", "k">>
OkDot == <<"o", "k", ".">>
Empty == <<>>

NoFile == [frames |-> <<>>, rate |-> 0, channels |-> 0, stage |-> "none"]
NoPrompt == <<>>

Range(s) == {s[i] : i \in DOMAIN s}

-----------------------------------------------------------------------------
(* TranscriptionHistory *)

HistoryAddNoDedupe(h, text) ==
    IF text = Empty THEN h
    ELSE IF Len(h) + 1 > max_history THEN Tail(Append(h, text)) ELSE Append(h, text)

HistoryAddDropNewest(h, text) ==
    IF text = Empty THEN h
    ELSE IF h = <<>> \/ text # h[Len(h)]
         THEN IF Len(h) + 1 > max_history THEN h ELSE Append(h, text)
         ELSE h

HistoryAdd(h, text) ==
    IF text = Empty THEN h
    ELSE IF h = <<>> \/ text # h[Len(h)]
         THEN IF Len(h) + 1 > max_history THEN Tail(Append(h, text))
              ELSE Append(h, text)
         ELSE h

GetPromptOldest(h) == IF h = <<>> THEN NoPrompt ELSE h[1]

GetPrompt(h) == IF h = <<>> THEN NoPrompt ELSE h[Len(h)]

-----------------------------------------------------------------------------
(* OptimizedAudioTranscriber: pure parts *)

RECURSIVE LStrip(_)
LStrip(s) == IF s # <<>> /\ Head(s) \in Whitespace THEN LStrip(Tail(s)) ELSE s

RECURSIVE RStrip(_)
RStrip(s) ==
    IF s # <<>> /\ s[Len(s)] \in Whitespace THEN RStrip(SubSeq(s, 1, Len(s) - 1)) ELSE s

Strip(s) == RStrip(LStrip(s))

HasPunctuation(s) == \E i \in 1..Len(s) : s[i] \in Punctuation

PostProcessOffByOne(o) ==
    IF o.kind # "text" THEN Empty
    ELSE LET text == Strip(o.text)
         IN  IF Len(text) <= ShortTextLen /\ ~HasPunctuation(text) THEN Empty ELSE text

(* transcribe_buffer, from the engine's answer on: what it returns *)
PostProcess(o) ==
    IF o.kind # "text" THEN Empty
    ELSE LET text == Strip(o.text)
         IN  IF Len(text) < ShortTextLen /\ ~HasPunctuation(text) THEN Empty ELSE text

MaxChunks(rate) == (rate * MAX_BUFFER_SECONDS) \div CHUNK

LimitBufferKeepOldest(buf, rate) ==
    IF Len(buf) > MaxChunks(rate) THEN SubSeq(buf, 1, MaxChunks(rate)) ELSE buf

LimitBuffer(buf, rate) ==
    IF Len(buf) > MaxChunks(rate)
    THEN SubSeq(buf, Len(buf) - MaxChunks(rate) + 1, Len(buf))
    ELSE buf

(* _save_audio_buffer after the WAV is written: the file it returns.       *)
(* conv is what ffmpeg does: "ok", "retry_ok" (the filtered resampling     *)
(* fails, the plain one works), "fail" (non-zero exit), "exception"        *)
(* (ffmpeg cannot be run).                                                 *)
ConvOutcomes == {"ok", "retry_ok", "fail", "exception"}

ConvertedFile(raw, conv) ==
    IF raw.rate # TARGET_SAMPLE_RATE
    THEN IF conv \in {"ok", "retry_ok"}
         THEN [frames |-> raw.frames, rate |-> TARGET_SAMPLE_RATE, channels |-> 1,
               stage |-> "resampled"]
         ELSE raw
    ELSE IF conv = "ok"
         THEN [frames |-> raw.frames, rate |-> raw.rate, channels |-> raw.channels,
               stage |-> "normalized"]
         ELSE raw

DeviceRate(idx) == IF idx = 1 THEN 820 ELSE 16000

(* maxInputChannels of the device: device 2 is a stereo device *)
DeviceChannels(idx) == IF idx = 2 THEN 2 ELSE 1

EngineTexts == {Empty, Ok, OkDot, Hello}

EngineOutcomes ==
    {[kind |-> "raise", text |-> Empty], [kind |-> "no_results", text |-> Empty],
     [kind |-> "no_text", text |-> Empty]}
    \cup {[kind |-> "text", text |-> t] : t \in EngineTexts}

NewLoop == [pc |-> "while", audio_file |-> NoFile]

(* the programs in which the loop thread of OptimizedAudioTranscriber runs *)
OatProgs == {"whispers2t", "ticks"}

-----------------------------------------------------------------------------
(* OptimizedAudioTranscriber: the object after __init__.  lock is 0 when   *)
(* free, else the handle of the loop thread holding it; nframes counts the *)
(* frames delivered, ncalls the chunks written, last_call is what the      *)
(* engine was last given, printed the transcriptions printed.              *)

InitOat ==
    [p |-> FALSE, stream |-> "None", audio_buffer |-> <<>>, is_recording |-> FALSE,
     transcription_thread |-> 0, lock |-> 0, last_transcription |-> Empty,
     device_sample_rate |-> TARGET_SAMPLE_RATE, input_channels |-> CHANNELS,
     nframes |-> 0, ncalls |-> 0, last_call |-> [file |-> NoFile, prompt |-> NoPrompt],
     printed |-> <<>>]

AudioCallbackNoLock ==
    /\ prog = "whispers2t"
    /\ oat.stream = "open"
    /\ oat.nframes < MaxFrames
    /\ oat' = [oat EXCEPT !.audio_buffer = Append(@, oat.nframes + 1),
                          !.nframes = @ + 1]
    /\ pushed' = Append(pushed, oat.nframes + 1)
    /\ UNCHANGED <<prog, caller, loops, history, ret, saved, added, noise, uiVars>>

(* _audio_callback: the stream delivers one frame; frames are numbered in  *)
(* delivery order.                                                         *)
AudioCallback ==
    /\ prog = "whispers2t"
    /\ oat.stream = "open"
    /\ oat.lock = 0
    /\ oat.nframes < MaxFrames
    /\ oat' = [oat EXCEPT !.audio_buffer = Append(@, oat.nframes + 1),
                          !.nframes = @ + 1]
    /\ pushed' = Append(pushed, oat.nframes + 1)
    /\ UNCHANGED <<prog, caller, loops, history, ret, saved, added, noise, uiVars>>

(* start_recording(input_device_index); opens tells whether p.open works *)
StartRecording(idx, opens) ==
    /\ prog = "whispers2t"
    /\ caller = "idle"
    /\ IF oat.is_recording
       THEN /\ ret' = "None"
            /\ UNCHANGED <<oat, loops, pushed>>
       ELSE IF idx = 3
       THEN \* get_device_by_index returns None: ValueError, then the handler
            /\ oat' = [oat EXCEPT !.p = TRUE, !.is_recording = FALSE]
            /\ ret' = "raised"
            /\ UNCHANGED <<loops, pushed>>
       ELSE /\ oat.lock = 0
            /\ pushed' = <<>>
            /\ IF opens
               THEN /\ Len(loops) < MaxStarts
                    /\ oat' = [oat EXCEPT !.p = TRUE,
                                          !.device_sample_rate = DeviceRate(idx),
                                          !.input_channels = DeviceChannels(idx),
                                          !.audio_buffer = <<>>,
                                          !.stream = "open",
                                          !.is_recording = TRUE,
                                          !.transcription_thread = Len(loops) + 1]
                    /\ loops' = Append(loops, NewLoop)
                    /\ ret' = "None"
               ELSE /\ oat' = [oat EXCEPT !.p = TRUE,
                                          !.device_sample_rate = DeviceRate(idx),
                                          !.audio_buffer = <<>>,
                                          !.is_recording = FALSE]
                    /\ ret' = "raised"
                    /\ UNCHANGED loops
    /\ UNCHANGED <<prog, caller, history, saved, added, noise, uiVars>>

(* stop_recording up to the join *)
StopRecording ==
    /\ prog = "whispers2t"
    /\ caller = "idle"
    /\ IF ~oat.is_recording
       THEN UNCHANGED <<oat, caller>>
       ELSE /\ oat' = [oat EXCEPT !.is_recording = FALSE, !.stream = "None"]
            /\ caller' = IF oat.transcription_thread # 0 THEN "oat_join" ELSE "idle"
    /\ ret' = "None"
    /\ UNCHANGED <<prog, loops, history, pushed, saved, added, noise, uiVars>>

(* transcription_thread.join(timeout=2.0) returns: the thread has ended,   *)
(* or the two seconds have passed                                          *)
StopRecordingJoin ==
    /\ prog = "whispers2t"
    /\ caller = "oat_join"
    /\ \/ loops[oat.transcription_thread].pc = "done"
       \/ loops[oat.transcription_thread].pc # "done"
    /\ oat' = [oat EXCEPT !.transcription_thread = 0]
    /\ caller' = "idle"
    /\ UNCHANGED <<prog, loops, history, ret, pushed, saved, added, noise, uiVars>>

(* _transcription_loop: the while test *)
LoopWhile(t) ==
    /\ prog \in OatProgs
    /\ loops[t].pc = "while"
    /\ loops' = [loops EXCEPT ![t].pc = IF oat.is_recording THEN "sleep" ELSE "done"]
    /\ UNCHANGED <<prog, caller, oat, history, ret, pushed, saved, added, noise, uiVars>>

(* the sleep ends and _limit_buffer_size runs under the lock *)
LimitBufferSize(t) ==
    /\ prog \in OatProgs
    /\ loops[t].pc = "sleep"
    /\ oat.lock = 0
    /\ oat' = [oat EXCEPT !.audio_buffer = LimitBuffer(@, oat.device_sample_rate)]
    /\ loops' = [loops EXCEPT ![t].pc = "len"]
    /\ UNCHANGED <<prog, caller, history, ret, pushed, saved, added, noise, uiVars>>

LoopLenAtLeast(t) ==
    /\ prog \in OatProgs
    /\ loops[t].pc = "len"
    /\ oat.lock = 0
    /\ loops' = [loops EXCEPT ![t].pc = IF Len(oat.audio_buffer) >= MinBufferLength
                                        THEN "save" ELSE "while"]
    /\ UNCHANGED <<prog, caller, oat, history, ret, pushed, saved, added, noise, uiVars>>

(* buffer_length = len(self.audio_buffer) under the lock, and the test *)
LoopLen(t) ==
    /\ prog \in OatProgs
    /\ loops[t].pc = "len"
    /\ oat.lock = 0
    /\ loops' = [loops EXCEPT ![t].pc = IF Len(oat.audio_buffer) > MinBufferLength
                                        THEN "save" ELSE "while"]
    /\ UNCHANGED <<prog, caller, oat, history, ret, pushed, saved, added, noise, uiVars>>

RawFile ==
    [frames |-> oat.audio_buffer, rate |-> oat.device_sample_rate, channels |-> CHANNELS,
     stage |-> "raw"]

DrainedBuffer == <<>>

(* what _save_audio_buffer leaves in the buffer *)
SavedBuffer == oat.audio_buffer

(* transcribe_buffer -> _save_audio_buffer: takes the lock; an empty       *)
(* buffer returns None (and transcribe_buffer ""), otherwise every frame   *)
(* of the buffer is written to the WAV while the lock is held.             *)
SaveAudioBuffer(t) ==
    /\ prog \in OatProgs
    /\ loops[t].pc = "save"
    /\ oat.lock = 0
    /\ IF oat.audio_buffer = <<>>
       THEN /\ loops' = [loops EXCEPT ![t].pc = "while"]
            /\ UNCHANGED <<oat, saved>>
       ELSE /\ oat.ncalls < MaxCalls
            /\ oat' = [oat EXCEPT !.lock = t,
                                  !.ncalls = @ + 1,
                                  !.audio_buffer = SavedBuffer]
            /\ saved' = saved \cup Range(oat.audio_buffer)
            /\ loops' = [loops EXCEPT ![t].pc = "written", ![t].audio_file = RawFile]
    /\ UNCHANGED <<prog, caller, history, ret, pushed, added, noise, uiVars>>

(* the lock is released; ffmpeg resamples or normalizes; transcribe_buffer *)
(* reads the prompt and calls the engine                                   *)
ConvertAndSubmit(t, conv) ==
    /\ prog \in OatProgs
    /\ loops[t].pc = "written"
    /\ LET f == ConvertedFile(loops[t].audio_file, conv)
       IN  /\ oat' = [oat EXCEPT !.lock = 0,
                                 !.last_call = [file |-> f, prompt |-> GetPrompt(history)]]
           /\ loops' = [loops EXCEPT ![t].pc = "engine", ![t].audio_file = f]
    /\ UNCHANGED <<prog, caller, history, ret, pushed, saved, added, noise, uiVars>>

(* the engine answers (or raises); transcribe_buffer returns; the loop     *)
(* prints and records a new non-empty transcription                        *)
EngineReturns(t, o) ==
    /\ prog \in OatProgs \cup {"noise"}
    /\ loops[t].pc = "engine"
    /\ LET transcription == PostProcess(o)
       IN  IF transcription # Empty /\ transcription # oat.last_transcription
           THEN /\ oat' = [oat EXCEPT !.printed = Append(@, transcription),
                                      !.last_transcription = transcription]
                /\ history' = HistoryAdd(history, transcription)
           ELSE UNCHANGED <<oat, history>>
    /\ loops' = [loops EXCEPT ![t].pc = "while", ![t].audio_file = NoFile]
    /\ noise' = IF prog = "noise"
                THEN [given |-> o, returned |-> PostProcess(o), done |-> TRUE]
                ELSE noise
    /\ UNCHANGED <<prog, caller, ret, pushed, saved, added, uiVars>>

NextOat ==
    \/ AudioCallback
    \/ \E idx \in DeviceIndexes, opens \in BOOLEAN : StartRecording(idx, opens)
    \/ StopRecording
    \/ StopRecordingJoin
    \/ \E t \in DOMAIN loops : LoopWhile(t)
    \/ \E t \in DOMAIN loops : LimitBufferSize(t)
    \/ \E t \in DOMAIN loops : LoopLen(t)
    \/ \E t \in DOMAIN loops : SaveAudioBuffer(t)
    \/ \E t \in DOMAIN loops, conv \in ConvOutcomes : ConvertAndSubmit(t, conv)
    \/ \E t \in DOMAIN loops, o \in EngineOutcomes : EngineReturns(t, o)

-----------------------------------------------------------------------------
(* AudioRecorder and TranscriptionService: the objects after __init__.     *)
(* A handle is the number of the thread: 0 is None.  The stream and the    *)
(* PyAudio instance a recording thread creates are kept with that thread   *)
(* (stream: "none", "open", "closed"; pa: "none", "live", "terminated"),   *)
(* and rec.stream / rec.p hold the handle of the thread that created the   *)
(* object the attribute refers to.  converter is whether                   *)
(* AudioSegment.converter is set.  nreads counts the frames read, and      *)
(* chunks lists the frames of each chunk _save_chunk has saved.            *)

Paths == (0..MaxClock) \X {"wav", "mp3"}

NoAudio == <<>>

InitRec(converter) ==
    [is_recording |-> FALSE, recording_thread |-> 0, stream |-> 0, p |-> 0,
     audio_queue |-> <<>>, current_chunk |-> <<>>, converter |-> converter,
     nreads |-> 0, chunks |-> <<>>]

InitSvc ==
    [is_processing |-> FALSE, processing_thread |-> 0,
     transcription_queue |-> <<>>, status_queue |-> <<>>,
     submitted |-> <<>>]   \* the chunk files handed to the engine, in order

NewRecorder(idx) ==
    [pc |-> "start", device_index |-> idx, chunk_frames |-> <<>>,
     stream |-> "none", pa |-> "none"]

NewWorker == [pc |-> "while", chunk_file |-> <<0, "none">>]

InitAll ==
    /\ rec = InitRec(TRUE)
    /\ recs = <<>>
    /\ svc = InitSvc
    /\ svcs = <<>>
    /\ fs = [f \in Paths |-> NoAudio]
    /\ now = 0
    /\ caller = "idle"
    /\ oat = InitOat
    /\ loops = <<>>
    /\ history = <<>>
    /\ ret = "None"
    /\ pushed = <<>>
    /\ saved = {}
    /\ added = <<>>
    /\ noise = [given |-> [kind |-> "no_results", text |-> Empty], returned |-> Empty,
                done |-> FALSE]

InitWhispers == prog = "whispers2t" /\ InitAll

SpecOat == InitWhispers /\ [][NextOat]_vars

-----------------------------------------------------------------------------
(* TranscriptionHistory driven directly: any sequence of add calls *)

HistoryTexts == {Empty, Hello, World, OkDot}

Add(text) ==
    /\ prog = "history"
    /\ Len(added) < MaxAdds
    /\ history' = HistoryAdd(history, text)
    /\ added' = Append(added, text)
    /\ UNCHANGED <<prog, caller, oat, loops, ret, pushed, saved, noise, uiVars>>

NextHistory == \E text \in HistoryTexts : Add(text)

InitHistory == prog = "history" /\ InitAll

SpecHistory == InitHistory /\ [][NextHistory]_vars

-----------------------------------------------------------------------------
(* _transcription_loop of a recording in progress: six frames are          *)
(* buffered, earlier ticks have left any history of at most two accepted   *)
(* texts, and the loop thread goes through its ticks                       *)

Histories ==
    {<<>>} \cup {<<a>> : a \in {Hello, OkDot, World}}
    \cup {h \in {<<a, b>> : a \in {Hello, OkDot, World}, b \in {Hello, OkDot}} : h[1] # h[2]}

InitTicks ==
    /\ prog = "ticks"
    /\ rec = InitRec(TRUE)
    /\ recs = <<>>
    /\ svc = InitSvc
    /\ svcs = <<>>
    /\ fs = [f \in Paths |-> NoAudio]
    /\ now = 0
    /\ caller = "idle"
    /\ \E h \in Histories :
          /\ history = h
          /\ oat = [InitOat EXCEPT !.p = TRUE, !.stream = "open", !.is_recording = TRUE,
                                   !.transcription_thread = 1,
                                   !.audio_buffer = <<1, 2, 3, 4, 5, 6>>,
                                   !.nframes = 6,
                                   !.last_transcription = GetPrompt(h),
                                   !.printed = h]
    /\ loops = <<NewLoop>>
    /\ ret = "None"
    /\ pushed = <<1, 2, 3, 4, 5, 6>>
    /\ saved = {}
    /\ added = <<>>
    /\ noise = [given |-> [kind |-> "no_results", text |-> Empty], returned |-> Empty,
                done |-> FALSE]

NextTicks ==
    \/ \E t \in DOMAIN loops : LoopWhile(t)
    \/ \E t \in DOMAIN loops : LimitBufferSize(t)
    \/ \E t \in DOMAIN loops : LoopLen(t)
    \/ \E t \in DOMAIN loops : SaveAudioBuffer(t)
    \/ \E t \in DOMAIN loops, conv \in ConvOutcomes : ConvertAndSubmit(t, conv)
    \/ \E t \in DOMAIN loops, o \in EngineOutcomes : EngineReturns(t, o)

SpecTicks == InitTicks /\ [][NextTicks]_vars

-----------------------------------------------------------------------------
(* transcribe_buffer on every engine answer: the engine call of the first  *)
(* loop thread is in flight, and the engine answers with any text of at    *)
(* most MaxTextLen characters                                              *)

RECURSIVE TextsUpTo(_)
TextsUpTo(n) ==
    IF n = 0 THEN {<<>>}
    ELSE LET shorter == TextsUpTo(n - 1)
         IN  shorter \cup {Append(s, c) : s \in shorter, c \in Chars}

NoiseOutcomes ==
    {[kind |-> "raise", text |-> Empty], [kind |-> "no_results", text |-> Empty],
     [kind |-> "no_text", text |-> Empty]}
    \cup {[kind |-> "text", text |-> t] : t \in TextsUpTo(MaxTextLen)}

InitNoise ==
    /\ prog = "noise"
    /\ rec = InitRec(TRUE)
    /\ recs = <<>>
    /\ svc = InitSvc
    /\ svcs = <<>>
    /\ fs = [f \in Paths |-> NoAudio]
    /\ now = 0
    /\ caller = "idle"
    /\ \E last \in {Empty, OkDot} :
          /\ oat = [InitOat EXCEPT !.p = TRUE, !.stream = "open", !.is_recording = TRUE,
                                   !.transcription_thread = 1, !.ncalls = 1,
                                   !.last_transcription = last,
                                   !.printed = IF last = Empty THEN <<>> ELSE <<last>>]
          /\ history = IF last = Empty THEN <<>> ELSE <<last>>
    /\ loops = <<[pc |-> "engine", audio_file |-> NoFile]>>
    /\ ret = "None"
    /\ pushed = <<>>
    /\ saved = {}
    /\ added = <<>>
    /\ noise = [given |-> [kind |-> "no_results", text |-> Empty], returned |-> Empty,
                done |-> FALSE]

NextNoise == \E o \in NoiseOutcomes : EngineReturns(1, o)

SpecNoise == InitNoise /\ [][NextNoise]_vars

-----------------------------------------------------------------------------
(* AudioRecorder *)

(* the rate of the device the recorder is given: low, so that a chunk of   *)
(* chunk_duration seconds is two reads long                                *)
(* The API of the two objects is called by a test driver, from any state  *)
(* in which the caller is idle, or by TranscriptionUI, whose start_recording *)
(* and stop_recording call it in a fixed order: pos is the point of that   *)
(* order at which the call is made, and the point reached on return.       *)
RecProgs == {"recorder", "ui"}

SvcProgs == {"service", "ui"}

CallerAt(pos) == caller = (IF prog = "ui" THEN pos ELSE "idle")

ReturnTo(pos) == IF prog = "ui" THEN pos ELSE "idle"

DefaultRate == 200
chunk_duration == 10
ReadFrames == 1024

frames_per_chunk == DefaultRate * chunk_duration

RecStartRecordingNoGuard(idx) ==
    /\ prog = "recorder"
    /\ caller = "idle"
    /\ Len(recs) < MaxRecStarts
    /\ rec' = [rec EXCEPT !.is_recording = TRUE, !.recording_thread = Len(recs) + 1]
    /\ recs' = Append(recs, NewRecorder(idx))
    /\ ret' = "True"
    /\ UNCHANGED <<prog, caller, oatVars, svc, svcs, fs, now>>

(* start_recording(device_index) *)
RecStartRecording(idx) ==
    /\ prog \in RecProgs
    /\ caller = "idle"
    /\ IF rec.is_recording
       THEN /\ ret' = "False"
            /\ UNCHANGED <<rec, recs, caller>>
       ELSE /\ Len(recs) < MaxRecStarts
            /\ rec' = [rec EXCEPT !.is_recording = TRUE,
                                  !.recording_thread = Len(recs) + 1]
            /\ recs' = Append(recs, NewRecorder(idx))
            /\ ret' = "True"
            /\ caller' = ReturnTo("ui_start_svc")
    /\ UNCHANGED <<prog, oatVars, svc, svcs, fs, now>>

(* stream.stop_stream(); stream.close() on the stream of handle h: an      *)
(* error on a stream already closed is caught by every caller              *)
CloseStream(threads, h) ==
    IF h # 0 /\ threads[h].stream = "open"
    THEN [threads EXCEPT ![h].stream = "closed"]
    ELSE threads

(* p.terminate() on the PyAudio instance of handle h *)
Terminate(threads, h) ==
    IF h # 0 /\ threads[h].pa = "live"
    THEN [threads EXCEPT ![h].pa = "terminated"]
    ELSE threads

(* stop_recording up to the join *)
RecStopRecording ==
    /\ prog \in RecProgs
    /\ CallerAt("ui_recording")
    /\ rec' = [rec EXCEPT !.is_recording = FALSE]
    /\ recs' = Terminate(CloseStream(recs, rec.stream), rec.p)
    /\ caller' = IF rec.recording_thread # 0 THEN "rec_join" ELSE ReturnTo("ui_stop_svc")
    /\ ret' = "None"
    /\ UNCHANGED <<prog, oatVars, svc, svcs, fs, now>>

(* recording_thread.join(timeout=1.0) returns: the thread has ended, or    *)
(* the second has passed                                                   *)
RecStopRecordingJoin ==
    /\ prog \in RecProgs
    /\ caller = "rec_join"
    /\ \/ recs[rec.recording_thread].pc = "done"
       \/ recs[rec.recording_thread].pc # "done"
    /\ caller' = ReturnTo("ui_stop_svc")
    /\ UNCHANGED <<prog, ret, oatVars, uiVars>>

RECURSIVE Unlinked(_, _)
Unlinked(files, paths) ==
    IF paths = <<>> THEN files
    ELSE Unlinked([files EXCEPT ![Head(paths)] = NoAudio], Tail(paths))

(* cleanup() *)
RecCleanup ==
    /\ prog \in RecProgs
    /\ CallerAt("ui_cleanup")
    /\ fs' = Unlinked(fs, rec.current_chunk)
    /\ rec' = [rec EXCEPT !.current_chunk = <<>>]
    /\ ret' = "None"
    /\ caller' = "idle"
    /\ UNCHANGED <<prog, oatVars, recs, svc, svcs, now>>

(* _save_chunk(frames, device_info): the file it puts on audio_queue.      *)
(* conv is what the MP3 conversion does: "ok" or "fail" (it raises).       *)
SavedPath(conv) ==
    IF ~rec.converter THEN <<now, "wav">>
    ELSE IF conv = "ok" THEN <<now, "mp3">>
    ELSE <<now, "wav">>

SavedFilesUnlinkFirst(frames, conv) ==
    LET wav == [fs EXCEPT ![<<now, "wav">>] = NoAudio]
    IN  IF rec.converter /\ conv = "ok"
        THEN [wav EXCEPT ![<<now, "mp3">>] = frames]
        ELSE wav

SavedFiles(frames, conv) ==
    LET wav == [fs EXCEPT ![<<now, "wav">>] = frames]
    IN  IF rec.converter /\ conv = "ok"
        THEN [wav EXCEPT ![<<now, "mp3">>] = frames, ![<<now, "wav">>] = NoAudio]
        ELSE wav

SaveChunk(frames, conv) ==
    IF frames = <<>>
    THEN UNCHANGED <<fs, rec>>
    ELSE /\ fs' = SavedFiles(frames, conv)
         /\ rec' = [rec EXCEPT !.audio_queue = Append(@, SavedPath(conv)),
                               !.current_chunk = Append(@, SavedPath(conv)),
                               !.chunks = Append(@, frames)]

(* _record_audio: PyAudio() and the stream; opens tells whether            *)
(* get_device_info_by_index and p.open work                                *)
RecordOpen(t, opens) ==
    /\ prog \in RecProgs
    /\ recs[t].pc = "start"
    /\ IF opens
       THEN /\ rec' = [rec EXCEPT !.p = t, !.stream = t]
            /\ recs' = [recs EXCEPT ![t].pa = "live", ![t].stream = "open",
                                    ![t].pc = "loop"]
       ELSE /\ rec' = [rec EXCEPT !.p = t]
            /\ recs' = [recs EXCEPT ![t].pa = "live", ![t].pc = "finally"]
    /\ UNCHANGED <<prog, caller, ret, oatVars, svc, svcs, fs, now>>

(* the while test *)
RecordWhile(t) ==
    /\ prog \in RecProgs
    /\ recs[t].pc = "loop"
    /\ recs' = [recs EXCEPT ![t].pc = IF rec.is_recording THEN "read" ELSE "flush"]
    /\ UNCHANGED <<prog, caller, ret, oatVars, rec, svc, svcs, fs, now>>

RecordReadCountsReads(t, works) ==
    /\ prog = "recorder"
    /\ recs[t].pc = "read"
    /\ IF works /\ recs[rec.stream].stream = "open" /\ recs[rec.stream].pa = "live"
       THEN /\ rec.nreads < MaxReads
            /\ rec' = [rec EXCEPT !.nreads = @ + 1]
            /\ recs' = [recs EXCEPT
                  ![t].chunk_frames = Append(@, rec.nreads + 1),
                  ![t].pc = IF Len(recs[t].chunk_frames) + 1 >= frames_per_chunk
                            THEN "save" ELSE "loop"]
       ELSE /\ recs' = [recs EXCEPT ![t].pc = "flush"]
            /\ UNCHANGED rec
    /\ UNCHANGED <<prog, caller, ret, oatVars, svc, svcs, fs, now>>

(* the number of reads after which frames_collected, raised by 1024 at     *)
(* each read, first reaches int(rate * duration)                           *)
ReadsUntilFull(rate, duration) ==
    CHOOSE k \in 1..(rate * duration) :
        /\ ReadFrames * k >= rate * duration
        /\ \A j \in 1..(k - 1) : ReadFrames * j < rate * duration

(* self.stream.read(1024): a frame, or an exception (the stream is closed, *)
(* or the device fails) and the break                                      *)
RecordRead(t, works) ==
    /\ prog \in RecProgs
    /\ recs[t].pc = "read"
    /\ IF works /\ recs[rec.stream].stream = "open" /\ recs[rec.stream].pa = "live"
       THEN /\ rec.nreads < MaxReads
            /\ rec' = [rec EXCEPT !.nreads = @ + 1]
            /\ recs' = [recs EXCEPT
                  ![t].chunk_frames = Append(@, rec.nreads + 1),
                  ![t].pc = IF ReadFrames * (Len(recs[t].chunk_frames) + 1) >= frames_per_chunk
                            THEN "save" ELSE "loop"]
       ELSE /\ recs' = [recs EXCEPT ![t].pc = "flush"]
            /\ UNCHANGED rec
    /\ UNCHANGED <<prog, caller, ret, oatVars, svc, svcs, fs, now>>

RecordSaveKeepsFrames(t, conv) ==
    /\ prog = "recorder"
    /\ recs[t].pc = "save"
    /\ SaveChunk(recs[t].chunk_frames, conv)
    /\ recs' = [recs EXCEPT ![t].pc = "loop"]
    /\ UNCHANGED <<prog, caller, ret, oatVars, svc, svcs, now>>

(* enough frames for a chunk: _save_chunk, and the chunk starts afresh *)
RecordSave(t, conv) ==
    /\ prog \in RecProgs
    /\ recs[t].pc = "save"
    /\ SaveChunk(recs[t].chunk_frames, conv)
    /\ recs' = [recs EXCEPT ![t].chunk_frames = <<>>, ![t].pc = "loop"]
    /\ UNCHANGED <<prog, caller, ret, oatVars, svc, svcs, now>>

RecordFlushFullOnly(t, conv) ==
    /\ prog = "recorder"
    /\ recs[t].pc = "flush"
    /\ IF ReadFrames * Len(recs[t].chunk_frames) >= frames_per_chunk
       THEN SaveChunk(recs[t].chunk_frames, conv)
       ELSE UNCHANGED <<fs, rec>>
    /\ recs' = [recs EXCEPT ![t].pc = "finally"]
    /\ UNCHANGED <<prog, caller, ret, oatVars, svc, svcs, now>>

(* after the loop: the remaining frames are saved *)
RecordFlush(t, conv) ==
    /\ prog \in RecProgs
    /\ recs[t].pc = "flush"
    /\ SaveChunk(recs[t].chunk_frames, conv)
    /\ recs' = [recs EXCEPT ![t].pc = "finally"]
    /\ UNCHANGED <<prog, caller, ret, oatVars, svc, svcs, now>>

(* finally: self.stream is closed and self.p terminated *)
RecordFinally(t) ==
    /\ prog \in RecProgs
    /\ recs[t].pc = "finally"
    /\ recs' = [Terminate(CloseStream(recs, rec.stream), rec.p) EXCEPT ![t].pc = "done"]
    /\ UNCHANGED <<prog, caller, ret, oatVars, rec, svc, svcs, fs, now>>

(* a second passes *)
Tick ==
    /\ prog \in RecProgs
    /\ now < MaxClock
    /\ now' = now + 1
    /\ UNCHANGED <<prog, caller, ret, oatVars, rec, recs, svc, svcs, fs>>

-----------------------------------------------------------------------------
(* TranscriptionService *)

(* start_processing(audio_queue), always given the recorder's queue *)
StartProcessing ==
    /\ prog \in SvcProgs
    /\ CallerAt("ui_start_svc")
    /\ IF svc.is_processing
       THEN /\ ret' = "False"
            /\ UNCHANGED <<svc, svcs>>
            /\ caller' = ReturnTo("ui_recording")
       ELSE /\ Len(svcs) < MaxSvcStarts
            /\ svc' = [svc EXCEPT !.is_processing = TRUE,
                                  !.processing_thread = Len(svcs) + 1]
            /\ svcs' = Append(svcs, NewWorker)
            /\ ret' = "True"
            /\ caller' = ReturnTo("ui_recording")
    /\ UNCHANGED <<prog, oatVars, rec, recs, fs, now>>

(* stop_processing up to the join *)
StopProcessing ==
    /\ prog \in SvcProgs
    /\ CallerAt("ui_stop_svc")
    /\ svc' = [svc EXCEPT !.is_processing = FALSE]
    /\ caller' = IF svc.processing_thread # 0 THEN "svc_join" ELSE ReturnTo("ui_cleanup")
    /\ ret' = "None"
    /\ UNCHANGED <<prog, oatVars, rec, recs, svcs, fs, now>>

(* processing_thread.join(timeout=1.0) returns *)
StopProcessingJoin ==
    /\ prog \in SvcProgs
    /\ caller = "svc_join"
    /\ \/ svcs[svc.processing_thread].pc = "done"
       \/ svcs[svc.processing_thread].pc # "done"
    /\ caller' = ReturnTo("ui_cleanup")
    /\ UNCHANGED <<prog, ret, oatVars, uiVars>>

(* _process_chunks: the while test *)
ProcessWhile(t) ==
    /\ prog \in SvcProgs
    /\ svcs[t].pc = "while"
    /\ svcs' = [svcs EXCEPT ![t].pc = IF svc.is_processing THEN "get" ELSE "done"]
    /\ UNCHANGED <<prog, caller, ret, oatVars, rec, recs, svc, fs, now>>

(* audio_queue.get(timeout=0.1): nothing queued, a path with no file, or   *)
(* a chunk, whose file is opened and sent to the engine                    *)
ProcessGet(t) ==
    /\ prog \in SvcProgs
    /\ svcs[t].pc = "get"
    /\ IF rec.audio_queue = <<>>
       THEN /\ svcs' = [svcs EXCEPT ![t].pc = "while"]
            /\ UNCHANGED <<rec, svc>>
       ELSE /\ rec' = [rec EXCEPT !.audio_queue = Tail(@)]
            /\ IF fs[Head(rec.audio_queue)] = NoAudio
               THEN /\ svcs' = [svcs EXCEPT ![t].pc = "while"]
                    /\ UNCHANGED svc
               ELSE /\ svc' = [svc EXCEPT !.status_queue = Append(@, "processing"),
                                          !.submitted = Append(@, Head(rec.audio_queue))]
                    /\ svcs' = [svcs EXCEPT ![t].pc = "engine",
                                            ![t].chunk_file = Head(rec.audio_queue)]
    /\ UNCHANGED <<prog, caller, ret, oatVars, recs, fs, now>>

SvcOutcomes ==
    {[kind |-> "raise", text |-> Empty]}
    \cup {[kind |-> "text", text |-> t] : t \in {Empty, Ok, OkDot}}

EmitsAlways(text) == TRUE

(* whether _process_chunks puts the engine's text on transcription_queue *)
Emits(text) == text # Empty

ProcessEngineRequeue(t, o) ==
    /\ prog = "service"
    /\ svcs[t].pc = "engine"
    /\ IF o.kind = "raise"
       THEN /\ svc' = [svc EXCEPT !.status_queue = Append(@, "error")]
            /\ rec' = [rec EXCEPT !.audio_queue = Append(@, svcs[t].chunk_file)]
            /\ UNCHANGED fs
       ELSE /\ svc' = IF Emits(o.text)
                      THEN [svc EXCEPT
                              !.transcription_queue =
                                  Append(@, [text |-> o.text, chunk |-> svcs[t].chunk_file]),
                              !.status_queue = Append(@, "processed")]
                      ELSE [svc EXCEPT !.status_queue = Append(@, "none")]
            /\ fs' = [fs EXCEPT ![svcs[t].chunk_file] = NoAudio]
            /\ UNCHANGED rec
    /\ svcs' = [svcs EXCEPT ![t].pc = "while", ![t].chunk_file = <<0, "none">>]
    /\ UNCHANGED <<prog, caller, ret, oatVars, recs, now>>

(* the engine answers or raises *)
ProcessEngine(t, o) ==
    /\ prog \in SvcProgs
    /\ svcs[t].pc = "engine"
    /\ IF o.kind = "raise"
       THEN /\ svc' = [svc EXCEPT !.status_queue = Append(@, "error")]
            /\ UNCHANGED fs
       ELSE /\ svc' = IF Emits(o.text)
                      THEN [svc EXCEPT
                              !.transcription_queue =
                                  Append(@, [text |-> o.text, chunk |-> svcs[t].chunk_file]),
                              !.status_queue = Append(@, "processed")]
                      ELSE [svc EXCEPT !.status_queue = Append(@, "none")]
            /\ fs' = [fs EXCEPT ![svcs[t].chunk_file] = NoAudio]
    /\ svcs' = [svcs EXCEPT ![t].pc = "while", ![t].chunk_file = <<0, "none">>]
    /\ UNCHANGED <<prog, caller, ret, oatVars, rec, recs, now>>

(* AudioRecorder driven directly: any sequence of its API calls *)

(* get_next_chunk() *)
GetNextChunk ==
    /\ prog = "recorder"
    /\ caller = "idle"
    /\ rec.audio_queue # <<>>
    /\ rec' = [rec EXCEPT !.audio_queue = Tail(@)]
    /\ ret' = "chunk"
    /\ UNCHANGED <<prog, caller, oatVars, recs, svc, svcs, fs, now>>

NextRecorder ==
    \/ \E idx \in {1} : RecStartRecording(idx)
    \/ RecStopRecording
    \/ RecStopRecordingJoin
    \/ RecCleanup
    \/ GetNextChunk
    \/ \E t \in DOMAIN recs, opens \in BOOLEAN : RecordOpen(t, opens)
    \/ \E t \in DOMAIN recs : RecordWhile(t)
    \/ \E t \in DOMAIN recs, works \in BOOLEAN : RecordRead(t, works)
    \/ \E t \in DOMAIN recs, conv \in {"ok", "fail"} : RecordSave(t, conv)
    \/ \E t \in DOMAIN recs, conv \in {"ok", "fail"} : RecordFlush(t, conv)
    \/ \E t \in DOMAIN recs : RecordFinally(t)
    \/ Tick

InitObjects ==
    /\ recs = <<>>
    /\ svc = InitSvc
    /\ svcs = <<>>
    /\ fs = [f \in Paths |-> NoAudio]
    /\ now = 0
    /\ caller = "idle"
    /\ oat = InitOat
    /\ loops = <<>>
    /\ history = <<>>
    /\ ret = "None"
    /\ pushed = <<>>
    /\ saved = {}
    /\ added = <<>>
    /\ noise = [given |-> [kind |-> "no_results", text |-> Empty], returned |-> Empty,
                done |-> FALSE]

InitRecorder ==
    /\ prog = "recorder"
    /\ \E converter \in BOOLEAN : rec = InitRec(converter)
    /\ InitObjects

SpecRecorder == InitRecorder /\ [][NextRecorder]_vars

(* TranscriptionService driven directly: any sequence of its API calls,    *)
(* while a producer puts chunk files on the queue it was given             *)
PutChunk ==
    /\ prog = "service"
    /\ Len(rec.current_chunk) <= MaxClock
    /\ LET path == <<Len(rec.current_chunk), "wav">>
       IN  /\ fs' = [fs EXCEPT ![path] = <<Len(rec.current_chunk) + 1>>]
           /\ rec' = [rec EXCEPT !.audio_queue = Append(@, path),
                                 !.current_chunk = Append(@, path)]
    /\ UNCHANGED <<prog, caller, ret, oatVars, recs, svc, svcs, now>>

NextService ==
    \/ PutChunk
    \/ StartProcessing
    \/ StopProcessing
    \/ StopProcessingJoin
    \/ \E t \in DOMAIN svcs : ProcessWhile(t)
    \/ \E t \in DOMAIN svcs : ProcessGet(t)
    \/ \E t \in DOMAIN svcs, o \in SvcOutcomes : ProcessEngine(t, o)

InitService ==
    /\ prog = "service"
    /\ rec = InitRec(TRUE)
    /\ InitObjects

SpecService == InitService /\ [][NextService]_vars

(* any of the three programs *)
Init == InitWhispers \/ InitRecorder \/ InitService

Next == NextOat \/ NextRecorder \/ NextService

Spec == Init /\ [][Next]_vars

(* TranscriptionUI: start_recording calls AudioRecorder.start_recording    *)
(* and, when that returns True, TranscriptionService.start_processing;     *)
(* stop_recording calls AudioRecorder.stop_recording,                      *)
(* TranscriptionService.stop_processing and AudioRecorder.cleanup          *)
NextUi ==
    \/ Len(recs) < MaxSessions /\ \E idx \in {1} : RecStartRecording(idx)
    \/ StartProcessing
    \/ RecStopRecording
    \/ RecStopRecordingJoin
    \/ StopProcessing
    \/ StopProcessingJoin
    \/ RecCleanup
    \/ Tick
    \/ \E t \in DOMAIN recs, opens \in BOOLEAN : RecordOpen(t, opens)
    \/ \E t \in DOMAIN recs : RecordWhile(t)
    \/ \E t \in DOMAIN recs, works \in BOOLEAN : RecordRead(t, works)
    \/ \E t \in DOMAIN recs, conv \in {"ok", "fail"} : RecordSave(t, conv)
    \/ \E t \in DOMAIN recs, conv \in {"ok", "fail"} : RecordFlush(t, conv)
    \/ \E t \in DOMAIN recs : RecordFinally(t)
    \/ \E t \in DOMAIN svcs : ProcessWhile(t)
    \/ \E t \in DOMAIN svcs : ProcessGet(t)
    \/ \E t \in DOMAIN svcs, o \in SvcOutcomes : ProcessEngine(t, o)

InitUi ==
    /\ prog = "ui"
    /\ \E converter \in BOOLEAN : rec = InitRec(converter)
    /\ InitObjects

SpecUi == InitUi /\ [][NextUi]_vars

(* Scheduling: a thread that can take a step takes one; a join returns;    *)
(* the calls that TranscriptionUI makes in a row follow each other.  The   *)
(* user's presses of start and stop are under no obligation.               *)
RecThreadStep(t) ==
    \/ \E opens \in BOOLEAN : RecordOpen(t, opens)
    \/ RecordWhile(t)
    \/ \E works \in BOOLEAN : RecordRead(t, works)
    \/ \E conv \in {"ok", "fail"} : RecordSave(t, conv)
    \/ \E conv \in {"ok", "fail"} : RecordFlush(t, conv)
    \/ RecordFinally(t)

SvcThreadStep(t) ==
    \/ ProcessWhile(t)
    \/ ProcessGet(t)
    \/ \E o \in SvcOutcomes : ProcessEngine(t, o)

UiSequenceStep ==
    \/ StartProcessing
    \/ RecStopRecordingJoin
    \/ StopProcessing
    \/ StopProcessingJoin
    \/ RecCleanup

UiFairness ==
    /\ \A t \in 1..MaxRecStarts : WF_vars(t \in DOMAIN recs /\ RecThreadStep(t))
    /\ \A t \in 1..MaxSvcStarts : WF_vars(t \in DOMAIN svcs /\ SvcThreadStep(t))
    /\ WF_vars(UiSequenceStep)

SpecUiFair == SpecUi /\ UiFairness

-----------------------------------------------------------------------------
(* Properties *)

IsSuffix(s, u) == Len(s) <= Len(u) /\ s = SubSeq(u, Len(u) - Len(s) + 1, Len(u))

IsPrefix(s, u) == Len(s) <= Len(u) /\ s = SubSeq(u, 1, Len(s))

Min(a, b) == IF a <= b THEN a ELSE b

LastN(s, n) == SubSeq(s, Len(s) - Min(n, Len(s)) + 1, Len(s))

(* C1: whenever _limit_buffer_size completes, the buffer holds at most     *)
(* max_chunks frames (at most MAX_BUFFER_SECONDS of audio), the frames     *)
(* kept are the most recently appended ones in their order, and a buffer   *)
(* that was within the bound is unchanged.                                 *)
C1_LimitKeepsNewest ==
    [][\A t \in DOMAIN loops :
          LimitBufferSize(t) =>
             LET before == oat.audio_buffer
                 after == oat'.audio_buffer
                 rate == oat.device_sample_rate
             IN  /\ Len(after) <= MaxChunks(rate)
                 /\ Len(after) * CHUNK <= rate * MAX_BUFFER_SECONDS
                 /\ after = LastN(before, MaxChunks(rate))
                 /\ IsSuffix(after, pushed)
                 /\ (Len(before) <= MaxChunks(rate) => after = before)]_vars

C1_Evicted ==
    \E t \in DOMAIN loops :
       /\ loops[t].pc = "len"
       /\ Len(oat.audio_buffer) = MaxChunks(oat.device_sample_rate)
       /\ Len(pushed) > Len(oat.audio_buffer)
       /\ IsSuffix(oat.audio_buffer, pushed)

(* C2 as claimed: materializing a chunk empties the buffer, and no frame   *)
(* is written into more than one chunk.                                    *)
C2_SaveDrains ==
    [][\A t \in DOMAIN loops :
          (SaveAudioBuffer(t) /\ oat.audio_buffer # <<>>) =>
             /\ oat'.audio_buffer = <<>>
             /\ Range(oat.audio_buffer) \cap saved = {}]_vars

(* C2 as amended: _save_audio_buffer writes every buffered frame into the  *)
(* chunk and leaves the buffer as it was, so the next chunk starts with    *)
(* the same frames; frames leave the buffer only from the front in         *)
(* _limit_buffer_size or by the reset in start_recording.                  *)
C2_SaveKeepsBuffer ==
    [][/\ \A t \in DOMAIN loops :
             SaveAudioBuffer(t) =>
                /\ oat'.audio_buffer = oat.audio_buffer
                /\ oat.audio_buffer # <<>> =>
                      loops'[t].audio_file.frames = oat.audio_buffer
       /\ \/ IsPrefix(oat.audio_buffer, oat'.audio_buffer)
          \/ \E t \in DOMAIN loops : LimitBufferSize(t)
          \/ \E idx \in DeviceIndexes, opens \in BOOLEAN : StartRecording(idx, opens)]_vars

C2_FrameInTwoChunks ==
    \E t \in DOMAIN loops :
       /\ loops[t].pc = "written"
       /\ oat.ncalls = 2
       /\ loops[t].audio_file.frames = oat.audio_buffer
       /\ Range(oat.last_call.file.frames) \cap Range(loops[t].audio_file.frames) # {}

(* the texts add appends: the non-empty arguments that differ from the     *)
(* argument appended before them                                           *)
RECURSIVE Accepted(_)
Accepted(args) ==
    IF args = <<>> THEN <<>>
    ELSE LET before == Accepted(SubSeq(args, 1, Len(args) - 1))
             text == args[Len(args)]
         IN  IF text # Empty /\ (before = <<>> \/ before[Len(before)] # text)
             THEN Append(before, text)
             ELSE before

C4_LastAccepted ==
    /\ Len(history) <= max_history
    /\ history = LastN(Accepted(added), max_history)

C4_Overflowed ==
    /\ Len(Accepted(added)) > max_history
    /\ Len(history) = max_history

TerminalPunctuation == {".", "!", "?"}

(* C5 as claimed: an engine text is discarded exactly when, stripped, it   *)
(* is empty or shorter than 3 characters without terminal punctuation      *)
(* (. ! ?); every other text is returned.                                  *)
C5_TerminalPunctuationRule ==
    (noise.done /\ noise.given.kind = "text") =>
       LET text == Strip(noise.given.text)
           discard == Len(text) < 3 /\ \A i \in 1..Len(text) : text[i] \notin TerminalPunctuation
       IN  noise.returned = IF discard THEN Empty ELSE text

(* C5 as amended: an engine text is discarded exactly when, stripped, it   *)
(* is shorter than 3 characters (empty included) and holds none of the     *)
(* characters . ! ? , ; -- every other text is returned stripped; on a     *)
(* discarded result the loop prints nothing and leaves history and         *)
(* last_transcription as they were.  "ok" is discarded, "ok." is kept.     *)
C5_NoiseRule ==
    [][\A o \in NoiseOutcomes :
          (EngineReturns(1, o) /\ o.kind = "text") =>
             LET text == Strip(o.text)
                 discard == /\ Len(text) < 3
                            /\ \A i \in 1..Len(text) : text[i] \notin {".", "!", "?", ",", ";"}
             IN  /\ noise'.returned = IF discard THEN Empty ELSE text
                 /\ o.text = Ok => noise'.returned = Empty
                 /\ o.text = OkDot => noise'.returned = OkDot
                 /\ noise'.returned = Empty =>
                       /\ history' = history
                       /\ oat'.printed = oat.printed
                       /\ oat'.last_transcription = oat.last_transcription
                 /\ (noise'.returned # Empty /\ noise'.returned # oat.last_transcription) =>
                       oat'.printed = Append(oat.printed, noise'.returned)]_vars

C5_CommaKept ==
    /\ noise.done
    /\ noise.given.text = <<" ", "k", ",">>
    /\ noise.returned = <<"k", ",">>
    /\ oat.printed # <<>>
    /\ oat.printed[Len(oat.printed)] = <<"k", ",">>

IsNoise(text) == Len(text) < ShortTextLen /\ ~HasPunctuation(text)

(* C6: the queue-based worker applies the noise rule: no fragment on       *)
(* transcription_queue carries a text shorter than 3 characters without    *)
(* punctuation, such as "ok".                                              *)
C6_NoNoiseFragments ==
    \A i \in DOMAIN svc.transcription_queue : ~IsNoise(svc.transcription_queue[i].text)

(* C7: a conversion failure never drops a chunk.  Every _save_chunk of a   *)
(* non-empty chunk puts one path on audio_queue whose file holds the       *)
(* chunk's frames, and it is the WAV when the converter is missing or the  *)
(* export fails; _save_audio_buffer returns the WAV it wrote, unchanged,   *)
(* when ffmpeg fails or cannot be run, and the engine is still called.     *)
C7_ConversionFailureKeepsChunk ==
    [][/\ \A t \in DOMAIN recs, conv \in {"ok", "fail"} :
             ((RecordSave(t, conv) \/ RecordFlush(t, conv)) /\ recs[t].chunk_frames # <<>>) =>
                /\ Len(rec'.audio_queue) = Len(rec.audio_queue) + 1
                /\ fs'[rec'.audio_queue[Len(rec'.audio_queue)]] = recs[t].chunk_frames
                /\ (~rec.converter \/ conv = "fail") =>
                      /\ rec'.audio_queue = Append(rec.audio_queue, <<now, "wav">>)
                      /\ fs'[<<now, "wav">>] = recs[t].chunk_frames
                /\ recs'[t].pc \in {"loop", "finally"}
       /\ \A t \in DOMAIN loops, conv \in {"fail", "exception"} :
             ConvertAndSubmit(t, conv) =>
                /\ loops[t].audio_file.stage = "raw"
                /\ loops[t].audio_file.frames # <<>>
                /\ oat'.last_call.file = loops[t].audio_file
                /\ loops'[t].pc = "engine"]_vars

C7_WavForwarded ==
    /\ prog = "recorder"
    /\ rec.converter
    /\ \E i \in DOMAIN rec.audio_queue :
          /\ rec.audio_queue[i][2] = "wav"
          /\ fs[rec.audio_queue[i]] # NoAudio
    /\ \E t \in DOMAIN recs : recs[t].pc = "loop"

(* C8: when stop returns, the background thread has ended. *)
C8_StopLeavesNoThread ==
    [][/\ StopRecordingJoin => loops[oat.transcription_thread].pc = "done"
       /\ RecStopRecordingJoin => recs[rec.recording_thread].pc = "done"
       /\ StopProcessingJoin => svcs[svc.processing_thread].pc = "done"]_vars

(* C9: stop while not running changes nothing: the object's fields, its    *)
(* threads, streams and PyAudio instances, the history and the files stay  *)
(* as they are.                                                            *)
C9_StopWhenStoppedIsNoOp ==
    [][/\ (StopRecording /\ ~oat.is_recording) => UNCHANGED <<oat, loops, history>>
       /\ (RecStopRecording /\ ~rec.is_recording) => UNCHANGED <<rec, recs, fs>>
       /\ (StopProcessing /\ ~svc.is_processing) => UNCHANGED <<svc, svcs, rec, fs>>]_vars

(* C10: start while running changes nothing: AudioRecorder and             *)
(* TranscriptionService return False, OptimizedAudioTranscriber returns,   *)
(* and no thread or stream is created and no buffer or queue touched.      *)
C10_StartWhenRunningFails ==
    [][/\ \A idx \in DeviceIndexes, opens \in BOOLEAN :
             (StartRecording(idx, opens) /\ oat.is_recording) =>
                (ret' = "None" /\ UNCHANGED <<oat, loops, history, pushed>>)
       /\ \A idx \in DeviceIndexes :
             (RecStartRecording(idx) /\ rec.is_recording) =>
                (ret' = "False" /\ UNCHANGED <<rec, recs, fs>>)
       /\ (StartProcessing /\ svc.is_processing) =>
             (ret' = "False" /\ UNCHANGED <<svc, svcs, rec, fs>>)]_vars

C10_SecondStartRefused ==
    /\ prog = "recorder"
    /\ ret = "False"
    /\ rec.is_recording
    /\ rec.recording_thread = 1
    /\ Len(recs) = 1
    /\ recs[1].pc = "read"

(* C11: a successful start_recording after an earlier session resets the   *)
(* per-session state: the audio buffer is empty, the history is empty (so  *)
(* get_prompt() gives no prompt) and last_transcription is cleared.        *)
C11_StartResetsSession ==
    [][\A idx \in DeviceIndexes, opens \in BOOLEAN :
          (StartRecording(idx, opens) /\ ~oat.is_recording /\ oat'.is_recording) =>
             /\ oat'.audio_buffer = <<>>
             /\ history' = <<>>
             /\ GetPrompt(history') = NoPrompt
             /\ oat'.last_transcription = Empty]_vars

(* C12: when the worker is done with a chunk (a fragment, an empty text or *)
(* an engine error) the chunk's file is gone before the worker takes the   *)
(* next chunk.                                                             *)
C12_TerminalChunkDeleted ==
    [][\A t \in DOMAIN svcs, o \in SvcOutcomes :
          ProcessEngine(t, o) => fs'[svcs[t].chunk_file] = NoAudio]_vars

NoRepeats(s) == \A i, j \in DOMAIN s : s[i] = s[j] => i = j

(* C13: an engine error is non-fatal and per chunk: the failing call puts  *)
(* exactly one error status on status_queue and no fragment on             *)
(* transcription_queue, the chunk is not put back on audio_queue, the      *)
(* worker goes back to its loop, and no chunk is handed to the engine      *)
(* twice.                                                                  *)
C13_EngineErrorNonFatal ==
    [][/\ \A t \in DOMAIN svcs :
             ProcessEngine(t, [kind |-> "raise", text |-> Empty]) =>
                /\ svc'.status_queue = Append(svc.status_queue, "error")
                /\ svc'.transcription_queue = svc.transcription_queue
                /\ rec'.audio_queue = rec.audio_queue
                /\ svcs[t].chunk_file \notin Range(rec'.audio_queue)
                /\ svcs'[t].pc = "while"
       /\ NoRepeats(svc'.submitted)]_vars

C13_NextChunkAfterError ==
    /\ prog = "service"
    /\ Len(svcs) = 1
    /\ svc.submitted = << <<0, "wav">>, <<1, "wav">> >>
    /\ svc.status_queue = <<"processing", "error", "processing", "processed">>
    /\ Len(svc.transcription_queue) = 1
    /\ svc.transcription_queue[1].chunk = <<1, "wav">>

(* C14: a dequeued chunk whose engine call returns a non-empty text puts   *)
(* exactly one fragment on transcription_queue; an empty text or a failed  *)
(* call puts none; nothing else puts fragments, and no chunk has two.      *)
C14_OneFragmentPerText ==
    [][/\ \A t \in DOMAIN svcs, o \in SvcOutcomes :
             ProcessEngine(t, o) =>
                svc'.transcription_queue =
                   IF o.kind = "text" /\ o.text # Empty
                   THEN Append(svc.transcription_queue,
                               [text |-> o.text, chunk |-> svcs[t].chunk_file])
                   ELSE svc.transcription_queue
       /\ svc'.transcription_queue # svc.transcription_queue =>
             \E t \in DOMAIN svcs, o \in SvcOutcomes : ProcessEngine(t, o)
       /\ NoRepeats([i \in DOMAIN svc'.transcription_queue |->
                        svc'.transcription_queue[i].chunk])]_vars

C14_TextAndEmpty ==
    /\ prog = "service"
    /\ svc.status_queue = <<"processing", "none", "processing", "processed">>
    /\ Len(svc.transcription_queue) = 1
    /\ svc.transcription_queue[1].text = OkDot

(* C15: fragments are on transcription_queue in the order in which their   *)
(* chunks were put on audio_queue.                                         *)
C15_FragmentsInChunkOrder ==
    \A i, j \in DOMAIN svc.transcription_queue :
       i < j => svc.transcription_queue[i].chunk[1] < svc.transcription_queue[j].chunk[1]

(* C16: a device failure stops the pipeline: after the recording thread    *)
(* fails to open the device, or a read raises, the recorder is not in the  *)
(* running state (is_recording is False); an open failure in               *)
(* OptimizedAudioTranscriber.start_recording leaves is_recording False and *)
(* raises.                                                                 *)
C16_DeviceFailureStops ==
    [][/\ \A t \in DOMAIN recs : RecordOpen(t, FALSE) => ~rec'.is_recording
       /\ \A t \in DOMAIN recs : RecordRead(t, FALSE) => ~rec'.is_recording
       /\ \A idx \in DeviceIndexes :
             (StartRecording(idx, FALSE) /\ ~oat.is_recording) =>
                (~oat'.is_recording /\ ret' = "raised")]_vars

(* C17: when AudioRecorder.start_recording returns True the device stream  *)
(* of the new recording thread has been opened.                            *)
C17_StartConfirmsStream ==
    [][\A idx \in DeviceIndexes :
          (RecStartRecording(idx) /\ ret' = "True") =>
             /\ recs'[rec'.recording_thread].pc \notin {"start", "finally", "done"}
             /\ recs'[rec'.recording_thread].stream = "open"]_vars

(* C18: when recording ends (the loop sees the flag cleared, or a read     *)
(* raises) the thread goes to the flush with its pending frames, and the   *)
(* flush saves them, however few, as one chunk put on audio_queue; with no *)
(* frame pending nothing is saved or queued.                               *)
C18_FinalFlush ==
    [][/\ \A t \in DOMAIN recs :
             ((RecordWhile(t) /\ ~rec.is_recording) \/ RecordRead(t, FALSE)) =>
                /\ recs'[t].pc = "flush"
                /\ recs'[t].chunk_frames = recs[t].chunk_frames
       /\ \A t \in DOMAIN recs, conv \in {"ok", "fail"} :
             RecordFlush(t, conv) =>
                IF recs[t].chunk_frames # <<>>
                THEN /\ Len(rec'.audio_queue) = Len(rec.audio_queue) + 1
                     /\ SubSeq(rec'.audio_queue, 1, Len(rec.audio_queue)) = rec.audio_queue
                     /\ fs'[rec'.audio_queue[Len(rec'.audio_queue)]] = recs[t].chunk_frames
                ELSE rec'.audio_queue = rec.audio_queue /\ fs' = fs]_vars

C18_OneFrameFlushed ==
    /\ prog = "recorder"
    /\ \E t \in DOMAIN recs : recs[t].pc = "done" /\ Len(recs[t].chunk_frames) = 1
    /\ \E i \in DOMAIN rec.audio_queue : Len(fs[rec.audio_queue[i]]) = 1

(* C19: stop_recording drains the buffer: when the transcription loop ends *)
(* after a stop, every frame still held in the buffer has been written to  *)
(* a chunk for the engine, however few frames there are.                   *)
C19_StopDrainsBuffer ==
    [][\A t \in DOMAIN loops :
          (LoopWhile(t) /\ loops'[t].pc = "done") =>
             Range(oat.audio_buffer) \subseteq saved]_vars

(* C20: in a session of TranscriptionUI every chunk file that the recorder *)
(* puts on audio_queue, the one flushed at stop included, is eventually    *)
(* handed to the engine by the worker.                                     *)
C20_EveryChunkTranscribed ==
    \A path \in Paths :
       (path \in Range(rec.audio_queue)) ~> (path \in Range(svc.submitted))

(* C21: in every state while recording the audio buffer holds at most      *)
(* MAX_BUFFER_SECONDS of audio: at most max_chunks frames.                 *)
C21_BufferWithinCap ==
    oat.is_recording => Len(oat.audio_buffer) <= MaxChunks(oat.device_sample_rate)

(* C22: every access to audio_buffer is made under the lock: a step that   *)
(* changes the buffer is taken with the lock free and leaves it free, the  *)
(* length read needs the lock, the buffer does not change while            *)
(* _save_audio_buffer holds the lock, and the chunk it writes holds        *)
(* exactly the frames the buffer had when the lock was taken.              *)
C22_BufferAccessUnderLock ==
    [][/\ oat'.audio_buffer # oat.audio_buffer => (oat.lock = 0 /\ oat'.lock = 0)
       /\ oat.lock # 0 => oat'.audio_buffer = oat.audio_buffer
       /\ \A t \in DOMAIN loops : (LoopLen(t) \/ LimitBufferSize(t)) => oat.lock = 0
       /\ \A t \in DOMAIN loops :
             (SaveAudioBuffer(t) /\ oat.audio_buffer # <<>>) =>
                /\ oat.lock = 0
                /\ oat'.lock = t
                /\ loops'[t].audio_file.frames = oat.audio_buffer]_vars

C22_CallbackMeetsWriter ==
    /\ prog = "whispers2t"
    /\ \E t \in DOMAIN loops : oat.lock = t /\ loops[t].pc = "written"
    /\ oat.stream = "open"
    /\ oat.nframes < MaxFrames
    /\ oat.nframes > MinBufferLength

(* C23: every chunk written by _save_audio_buffer holds at most            *)
(* max_chunks frames, the most recent MAX_BUFFER_SECONDS of audio.         *)
C23_ChunkWithinCap ==
    [][\A t \in DOMAIN loops :
          SaveAudioBuffer(t) =>
             Len(loops'[t].audio_file.frames) <= MaxChunks(oat.device_sample_rate)]_vars

(* C24: both conversion steps are applied: when ffmpeg works, the file     *)
(* given to the engine for a chunk captured at a rate other than           *)
(* TARGET_SAMPLE_RATE is at TARGET_SAMPLE_RATE and loudness-normalized.    *)
C24_ResampledThenNormalized ==
    [][\A t \in DOMAIN loops :
          (ConvertAndSubmit(t, "ok") /\ loops[t].audio_file.rate # TARGET_SAMPLE_RATE) =>
             /\ oat'.last_call.file.rate = TARGET_SAMPLE_RATE
             /\ oat'.last_call.file.stage = "normalized"]_vars

(* C25: a chunk file is written with the format of the stream it was       *)
(* captured from: the channel count and the frame rate of its WAV header   *)
(* are those with which the capture stream was opened.                     *)
C25_HeaderMatchesStream ==
    [][\A t \in DOMAIN loops :
          (SaveAudioBuffer(t) /\ oat.audio_buffer # <<>>) =>
             /\ loops'[t].audio_file.rate = oat.device_sample_rate
             /\ loops'[t].audio_file.channels = oat.input_channels]_vars

(* C26: each engine call gets as prompt the most recently accepted text,   *)
(* the last history entry at the time of the call, and no prompt exactly   *)
(* when nothing has been accepted yet.                                     *)
C26_PromptIsNewest ==
    [][\A t \in DOMAIN loops, conv \in ConvOutcomes :
          ConvertAndSubmit(t, conv) =>
             /\ oat'.last_call.prompt =
                   IF oat.printed = <<>> THEN NoPrompt ELSE oat.printed[Len(oat.printed)]
             /\ (oat'.last_call.prompt = NoPrompt) <=> (history = <<>>)
             /\ history # <<>> => oat'.last_call.prompt = history[Len(history)]]_vars

C26_NewestOfSeveral ==
    /\ prog = "ticks"
    /\ Len(history) >= 2
    /\ \E t \in DOMAIN loops : loops[t].pc = "engine"
    /\ oat.last_call.prompt = history[Len(history)]
    /\ oat.last_call.prompt # history[1]

(* C27, as claimed: a tick turns the buffer into a chunk if and only if it *)
(* holds at least 5 frames.                                                *)
C27_AtLeastFive ==
    [][\A t \in DOMAIN loops :
          LoopLen(t) =>
             (loops'[t].pc = "save" <=> Len(oat.audio_buffer) >= MinBufferLength)]_vars

(* C27, amended: a tick whose length read finds 5 frames or fewer is       *)
(* skipped silently; one that finds more than 5 goes on to                 *)
(* transcribe_buffer, which writes all frames then buffered to a chunk and *)
(* calls the engine with it, or makes no chunk when the buffer has been    *)
(* emptied in between.                                                     *)
C27_MoreThanFive ==
    [][\A t \in DOMAIN loops :
          /\ LoopLen(t) =>
                IF Len(oat.audio_buffer) > MinBufferLength
                THEN loops'[t].pc = "save"
                ELSE loops'[t].pc = "while" /\ UNCHANGED <<oat, history, saved, ret>>
          /\ SaveAudioBuffer(t) =>
                IF oat.audio_buffer = <<>>
                THEN loops'[t].pc = "while" /\ UNCHANGED <<oat, history, saved, ret>>
                ELSE /\ loops'[t].pc = "written"
                     /\ loops'[t].audio_file.frames = oat.audio_buffer
          /\ \A conv \in ConvOutcomes :
                ConvertAndSubmit(t, conv) =>
                   /\ loops'[t].pc = "engine"
                   /\ oat'.last_call.file.frames = loops[t].audio_file.frames]_vars

C27_FiveFramesAtTick ==
    /\ prog = "whispers2t"
    /\ oat.is_recording
    /\ Len(oat.audio_buffer) = MinBufferLength
    /\ oat.ncalls = 0
    /\ \E t \in DOMAIN loops : loops[t].pc = "len"

(* C28: a chunk file whose path is on audio_queue, or which the worker is  *)
(* transcribing, is neither deleted nor overwritten by the recorder:       *)
(* cleanup and _save_chunk leave it as it is.                              *)
C28_QueuedFileUntouched ==
    [][\A path \in Paths :
          (/\ fs[path] # NoAudio
           /\ \/ path \in Range(rec.audio_queue)
              \/ \E w \in DOMAIN svcs : svcs[w].pc = "engine" /\ svcs[w].chunk_file = path
           /\ \/ RecCleanup
              \/ \E t \in DOMAIN recs, conv \in {"ok", "fail"} :
                    RecordSave(t, conv) \/ RecordFlush(t, conv))
          => fs'[path] = fs[path]]_vars

(* C29: a saved chunk always has a complete file: the WAV is deleted only  *)
(* in a _save_chunk whose MP3 export succeeded, and every path on          *)
(* audio_queue that cleanup has not yet been asked to delete names an      *)
(* existing file.                                                          *)
C29_SavedChunkHasFile ==
    \A i \in DOMAIN rec.audio_queue :
       rec.audio_queue[i] \in Range(rec.current_chunk) => fs[rec.audio_queue[i]] # NoAudio

(* C30: the capture callback never waits for the consumer: there is no     *)
(* state in which the stream is delivering frames while a loop thread      *)
(* holds the buffer lock to write a chunk file.                            *)
C30_CallbackNeverWaits ==
    ~(/\ oat.stream = "open"
      /\ oat.is_recording
      /\ oat.lock # 0
      /\ loops[oat.lock].pc = "written")


-----------------------------------------------------------------------------
(* TranscriptionService driven directly, with scheduling: a worker thread  *)
(* that can take a step takes one (the queue get times out after 0.1 s,    *)
(* the engine call returns or raises).  The driver's calls are under no    *)
(* obligation.                                                             *)
ServiceFairness ==
    \A t \in 1..MaxSvcStarts : WF_vars(t \in DOMAIN svcs /\ SvcThreadStep(t))

SpecServiceFair == SpecService /\ ServiceFairness

(* C31: cancellation is cooperative and terminates: once stop has set the  *)
(* running flag to False, every background loop that is still alive        *)
(* eventually observes the flag and ends (stated on the worker of          *)
(* TranscriptionService; no call of the driver changes a worker's          *)
(* position, so a worker is never ended from outside).                     *)
C31_StoppedLoopEnds ==
    \A t \in 1..MaxSvcStarts :
        (t \in DOMAIN svcs /\ ~svc.is_processing /\ svcs[t].pc # "done")
            ~> (t \in DOMAIN svcs /\ svcs[t].pc = "done")


(* C32: on every exit path of _record_audio the stream the thread opened   *)
(* is closed and the PyAudio instance it created is terminated by the time *)
(* the thread ends.                                                        *)
C32_ThreadEndsWithDeviceReleased ==
    \A t \in DOMAIN recs :
        recs[t].pc = "done" => (recs[t].stream # "open" /\ recs[t].pa # "live")


(* the concatenation of a sequence of chunks *)
RECURSIVE Concat(_)
Concat(cs) == IF cs = <<>> THEN <<>> ELSE Head(cs) \o Concat(Tail(cs))

(* the frames a recording thread has read and not yet handed to            *)
(* _save_chunk                                                             *)
Held(t) == IF recs[t].pc \in {"finally", "done"} THEN <<>> ELSE recs[t].chunk_frames

(* C33: in one run of _record_audio the chunks saved so far, followed by   *)
(* the frames the thread still holds, are exactly the frames read, in read *)
(* order; when the thread has ended, the concatenation of its chunks (the  *)
(* periodic ones and the final one) is the sequence of frames read.        *)
C33_ChunksPartitionReads ==
    Len(recs) = 1 => Concat(rec.chunks) \o Held(1) = [i \in 1..rec.nreads |-> i]

C33_PeriodicThenFinal ==
    /\ Len(recs) = 1
    /\ recs[1].pc = "done"
    /\ rec.nreads = 3
    /\ Len(rec.chunks) = 2


(* ceil(rate * duration / 1024) *)
CeilReads(rate, duration) == (rate * duration + ReadFrames - 1) \div ReadFrames

ReadsPerChunk == CeilReads(DefaultRate, chunk_duration)

SampleRates == {DefaultRate, 820, TARGET_SAMPLE_RATE}

ReadsAtRatesAgree ==
    /\ \A r \in SampleRates : ReadsUntilFull(r, chunk_duration) = CeilReads(r, chunk_duration)
    /\ ReadsUntilFull(TARGET_SAMPLE_RATE, chunk_duration) = 157

C35_OneLoopThread ==
    Cardinality({t \in DOMAIN loops : loops[t].pc # "done"}) <= 1

(* C36: at most one worker thread of a TranscriptionService consumes       *)
(* audio_queue at any time.                                                *)
C36_OneWorkerThread ==
    Cardinality({t \in DOMAIN svcs : svcs[t].pc # "done"}) <= 1


(* C37: a recording thread closes only the stream it opened and terminates *)
(* only the PyAudio instance it created: the finally block of one thread   *)
(* leaves the stream and the PyAudio instance of every other thread as     *)
(* they were.                                                              *)
C37_ThreadReleasesOwnHandles ==
    [][\A t \in DOMAIN recs :
          RecordFinally(t) =>
             \A u \in DOMAIN recs \ {t} :
                /\ recs'[u].stream = recs[u].stream
                /\ recs'[u].pa = recs[u].pa]_vars


(* C38: distinct chunks saved by _save_chunk get distinct file paths: a    *)
(* saved chunk is never written to a path that another chunk, still on    *)
(* audio_queue with its file in place, was saved to.                       *)
C38_DistinctChunkPaths ==
    \A i, j \in DOMAIN rec.audio_queue :
        (i # j /\ fs[rec.audio_queue[i]] # NoAudio) => rec.audio_queue[i] # rec.audio_queue[j]


(* C39: when the stop sequence of TranscriptionUI (stop_recording,         *)
(* stop_processing, cleanup) has completed and all threads have ended, no  *)
(* chunk file of the session is left on disk and current_chunk is empty.   *)
C39_NothingLeftAfterStop ==
    (/\ prog = "ui"
     /\ caller = "idle"
     /\ recs # <<>>
     /\ \A t \in DOMAIN recs : recs[t].pc = "done"
     /\ \A t \in DOMAIN svcs : svcs[t].pc = "done")
    => (/\ \A f \in Paths : fs[f] = NoAudio
        /\ rec.current_chunk = <<>>)


(* C40: once stop_recording has returned, and until the next               *)
(* start_recording, no engine call is started, no transcription is         *)
(* printed, and last_transcription and the history stay as they are.       *)
C40_QuietAfterStop ==
    [][(caller = "idle" /\ ~oat.is_recording) =>
          /\ \A t \in DOMAIN loops, conv \in ConvOutcomes : ~ConvertAndSubmit(t, conv)
          /\ oat'.printed = oat.printed
          /\ oat'.last_transcription = oat.last_transcription
          /\ history' = history]_vars

====
